---------------------------- MODULE Spec2Model ----------------------------
(***************************************************************************)
(* A model of compressed-size-action: the size-diff report of             *)
(* src/src/utils.js (stripHash, getDeltaText, iconForDifference,           *)
(* markdownTable, diffTable, getSortOrder) and the run of the action in    *)
(* src/src/index.js.                                                       *)
(*                                                                         *)
(* Five state machines share the variables: Spec (a diffTable call),       *)
(* SpecChange (getDeltaText and iconForDifference on a delta and an        *)
(* original size), SpecSortOrder (getSortOrder), SpecStripHash (stripHash  *)
(* and the function it returns) and SpecRun (the steps of run()).  Each    *)
(* leaves the variables of the others at their initial value.              *)
(*                                                                         *)
(* Text is modelled in two ways.  A string that the code compares          *)
(* character by character (a sort key) is a sequence of one-character      *)
(* strings; a string that the code only builds and prints (a table cell, a *)
(* summary line) is a TLA+ string.  A rendered markdown table, which the   *)
(* code returns as lines "| c1 | c2 |" joined by newlines, is the sequence *)
(* of its lines, each line the sequence of its cells; '' is <<>>.          *)
(***************************************************************************)
EXTENDS Integers, Sequences, FiniteSets, TLC

VARIABLES
    files,      \* the caller's array of Diff records (diffTable sorts it in place)
    options,    \* the options object handed to diffTable
    out,        \* what the last diffTable call produced ("none" before any call)
    change,     \* a delta and an original size, and what getDeltaText and
                \* iconForDifference returned for them
    sortOrder,  \* a sort specification as the user wrote it, and what getSortOrder
                \* made of it
    strip,      \* a hash-strip pattern, what stripHash made of it and handed to the
                \* size plugin, a file name and what the plugin's function made of it
    run         \* one run of the action: the triggering event, the inputs, the
                \* working tree, the position in run(), and what it did so far

vars == <<files, options, out, change, sortOrder, strip, run>>

-----------------------------------------------------------------------------
(* Bounds of the model *)

\* longest record list handed to diffTable
MaxFiles == 2

\* the JavaScript value undefined (an option that was not passed)
Undefined == "undefined"

\* the result of a function that has not been called
NotCalled == "not called"

-----------------------------------------------------------------------------
(* Small helpers *)

Abs(n) == IF n < 0 THEN -n ELSE n

DigitChar(d) == <<"0", "1", "2", "3", "4", "5", "6", "7", "8", "9">>[d + 1]

\* Number.prototype.toString of a non-negative integer, as a TLA+ string
RECURSIVE NatText(_)
NatText(n) == IF n < 10 THEN DigitChar(n) ELSE NatText(n \div 10) \o DigitChar(n % 10)

\* Number.prototype.toString of an integer, as a sequence of characters
RECURSIVE NatChars(_)
NatChars(n) == IF n < 10 THEN <<DigitChar(n)>> ELSE Append(NatChars(n \div 10), DigitChar(n % 10))

IntChars(n) == IF n < 0 THEN <<"-">> \o NatChars(-n) ELSE NatChars(n)

\* the characters of a string joined into one TLA+ string
RECURSIVE Join(_)
Join(chars) == IF chars = <<>> THEN "" ELSE Head(chars) \o Join(Tail(chars))

-----------------------------------------------------------------------------
(* Number formatting *)

\* round(a / b) for a >= 0, b > 0, halves rounded up
RoundHalfUpDiv(a, b) == (2 * a + b) \div (2 * b)

Pow10(d) == <<1, 10, 100>>[d + 1]

\* String(Number(x)) for x = scaled / 10^d, d <= 2: trailing zeros are not printed
DecimalText(scaled, d) ==
    LET int  == scaled \div Pow10(d)
        frac == scaled % Pow10(d)
    IN  IF frac = 0 THEN NatText(int)
        ELSE IF d = 1 THEN NatText(int) \o "." \o DigitChar(frac)
        ELSE IF frac % 10 = 0 THEN NatText(int) \o "." \o DigitChar(frac \div 10)
        ELSE NatText(int) \o "." \o DigitChar(frac \div 10) \o DigitChar(frac % 10)

UNITS == <<"B", "kB", "MB", "GB", "TB", "PB", "EB", "ZB", "YB">>

\* Math.min(Math.floor(Math.log10(m) / 3), UNITS.length - 1) for an integer m >= 1
RECURSIVE Exponent(_)
Exponent(m) == IF m < 1000 THEN 0 ELSE 1 + Exponent(m \div 1000)

RECURSIVE Pow1000(_)
Pow1000(e) == IF e = 0 THEN 1 ELSE 1000 * Pow1000(e - 1)

\* pretty-bytes: the number scaled to its unit, printed with 3 significant digits
prettyBytes(number) ==
    LET prefix   == IF number < 0 THEN "-" ELSE ""
        m        == Abs(number)
        e0       == Exponent(m)
        exponent == IF e0 < Len(UNITS) - 1 THEN e0 ELSE Len(UNITS) - 1
        unit     == Pow1000(exponent)
        \* toPrecision(3): 2, 1 or 0 decimals for a value below 10, 100, 1000
        d        == IF exponent = 0 THEN 0
                    ELSE IF m < 10 * unit THEN 2
                    ELSE IF m < 100 * unit THEN 1 ELSE 0
    IN  IF m < 1 THEN prefix \o "0 " \o UNITS[1]
        ELSE prefix \o DecimalText(RoundHalfUpDiv(m * Pow10(d), unit), d)
                    \o " " \o UNITS[exponent + 1]

\* Number(((delta / originalSize) * 100).toFixed(2)) printed by a template
\* literal; toFixed rounds the magnitude, halves up.  The quotient is taken
\* exactly, as in RoundedPercentage below
PercentageText(delta, originalSize) ==
    LET hundredths == RoundHalfUpDiv(Abs(delta) * 10000, Abs(originalSize))
        negative   == (delta < 0) # (originalSize < 0)
    IN  IF hundredths = 0 THEN "0"
        ELSE (IF negative THEN "-" ELSE "+") \o DecimalText(hundredths, 2)

\* a variant of getDeltaText that looks at the original size before it looks at
\* the delta
getDeltaTextNewFileFirst(delta, originalSize) ==
    LET deltaText == (IF delta > 0 THEN "+" ELSE "") \o prettyBytes(delta)
    IN  IF originalSize = 0 THEN deltaText \o " (new file)"
        ELSE IF Abs(delta) = 0 THEN deltaText
        ELSE IF originalSize = -delta THEN deltaText \o " (removed)"
        ELSE deltaText \o " (" \o PercentageText(delta, originalSize) \o "%)"

getDeltaText(delta, originalSize) ==
    LET deltaText == (IF delta > 0 THEN "+" ELSE "") \o prettyBytes(delta)
    IN  IF Abs(delta) = 0 THEN deltaText
        ELSE IF originalSize = 0 THEN deltaText \o " (new file)"
        ELSE IF originalSize = -delta THEN deltaText \o " (removed)"
        ELSE deltaText \o " (" \o PercentageText(delta, originalSize) \o "%)"

\* Math.round((delta / originalSize) * 100): the nearest integer, halves towards
\* +Infinity.  The quotient is taken exactly; the code takes it in binary floating
\* point, which agrees on the records of this model and on the deltas and
\* original sizes of Changes (on other inputs a percentage that is exactly
\* half-way can come out on either side)
RoundedPercentage(delta, originalSize) ==
    IF originalSize > 0 THEN (200 * delta + originalSize) \div (2 * originalSize)
    ELSE (-200 * delta - originalSize) \div (-2 * originalSize)

\* the emoji the code returns, by their GitHub short names
IconNew            == ":new:"
IconCritical       == ":sos:"
IconMajor          == ":rotating_light:"
IconWarning        == ":warning:"
IconNotable        == ":mag:"
IconBest           == ":trophy:"
IconGreat          == ":tada:"
IconGood           == ":clap:"
IconMinor          == ":white_check_mark:"

\* a variant of iconForDifference whose bands leave out the percentages 50, 20,
\* 10, 5, -5, -10, -20 and -50 that they start with
iconForDifferenceAboveOnly(delta, originalSize) ==
    IF originalSize = 0 THEN IconNew
    ELSE LET percentage == RoundedPercentage(delta, originalSize)
         IN  IF percentage > 50 THEN IconCritical
             ELSE IF percentage > 20 THEN IconMajor
             ELSE IF percentage > 10 THEN IconWarning
             ELSE IF percentage > 5 THEN IconNotable
             ELSE IF percentage < -50 THEN IconBest
             ELSE IF percentage < -20 THEN IconGreat
             ELSE IF percentage < -10 THEN IconGood
             ELSE IF percentage < -5 THEN IconMinor
             ELSE ""

\* a variant of iconForDifference that takes a shrink for a growth of the same
\* percentage
iconForDifferenceOfMagnitude(delta, originalSize) ==
    IF originalSize = 0 THEN IconNew
    ELSE LET percentage == Abs(RoundedPercentage(delta, originalSize))
         IN  IF percentage >= 50 THEN IconCritical
             ELSE IF percentage >= 20 THEN IconMajor
             ELSE IF percentage >= 10 THEN IconWarning
             ELSE IF percentage >= 5 THEN IconNotable
             ELSE ""

iconForDifference(delta, originalSize) ==
    IF originalSize = 0 THEN IconNew
    ELSE LET percentage == RoundedPercentage(delta, originalSize)
         IN  IF percentage >= 50 THEN IconCritical
             ELSE IF percentage >= 20 THEN IconMajor
             ELSE IF percentage >= 10 THEN IconWarning
             ELSE IF percentage >= 5 THEN IconNotable
             ELSE IF percentage <= -50 THEN IconBest
             ELSE IF percentage <= -20 THEN IconGreat
             ELSE IF percentage <= -10 THEN IconGood
             ELSE IF percentage <= -5 THEN IconMinor
             ELSE ""

-----------------------------------------------------------------------------
(* String.prototype.localeCompare(other, undefined, { numeric: true }) *)

Digits == <<"0", "1", "2", "3", "4", "5", "6", "7", "8", "9">>

\* the characters of the model that are no digits, in the order of the root
\* collation: punctuation sorts before the digits, the letters after them
Punctuation == <<"_", "-", ".">>
Letters == <<"a", "b", "c", "d", "e", "f", "g", "h", "i", "j", "k", "l", "m",
             "n", "o", "p", "q", "r", "s", "t", "u", "v", "w", "x", "y", "z">>

\* the place of every character within its class
PlaceIn(seq) == [c \in {seq[i] : i \in 1..Len(seq)} |-> CHOOSE i \in 1..Len(seq) : seq[i] = c]
DigitPlace == PlaceIn(Digits)
PunctuationPlace == PlaceIn(Punctuation)
LetterPlace == PlaceIn(Letters)

IsDigit(c) == c \in DOMAIN DigitPlace

DigitValue(c) == DigitPlace[c] - 1

\* a variant of DigitRun that takes every digit by itself (a comparison that is
\* not numeric)
DigitRunOfOne(chars) == IF chars # <<>> /\ IsDigit(Head(chars)) THEN 1 ELSE 0

\* the length of the run of digits that starts chars
RECURSIVE DigitRun(_)
DigitRun(chars) ==
    IF chars # <<>> /\ IsDigit(Head(chars)) THEN 1 + DigitRun(Tail(chars)) ELSE 0

RECURSIVE NumericValue(_)
NumericValue(digits) ==
    IF digits = <<>> THEN 0
    ELSE 10 * NumericValue(SubSeq(digits, 1, Len(digits) - 1)) + DigitValue(digits[Len(digits)])

\* the collation elements of a string: <<class, weight>>, a run of digits being
\* one element weighted by its numeric value (numeric: true)
RECURSIVE CollationElements(_)
CollationElements(chars) ==
    IF chars = <<>> THEN <<>>
    ELSE IF IsDigit(Head(chars))
         THEN LET k == DigitRun(chars)
              IN  <<<<1, NumericValue(SubSeq(chars, 1, k))>>>>
                      \o CollationElements(SubSeq(chars, k + 1, Len(chars)))
         ELSE IF Head(chars) \in DOMAIN PunctuationPlace
              THEN <<<<0, PunctuationPlace[Head(chars)]>>>> \o CollationElements(Tail(chars))
              ELSE <<<<2, LetterPlace[Head(chars)]>>>> \o CollationElements(Tail(chars))

RECURSIVE CompareElements(_, _)
CompareElements(x, y) ==
    IF x = <<>> THEN (IF y = <<>> THEN 0 ELSE -1)
    ELSE IF y = <<>> THEN 1
    ELSE IF Head(x)[1] # Head(y)[1] THEN (IF Head(x)[1] < Head(y)[1] THEN -1 ELSE 1)
    ELSE IF Head(x)[2] # Head(y)[2] THEN (IF Head(x)[2] < Head(y)[2] THEN -1 ELSE 1)
    ELSE CompareElements(Tail(x), Tail(y))

localeCompare(a, b) == CompareElements(CollationElements(a), CollationElements(b))

-----------------------------------------------------------------------------
(* diffTable: the sort *)

\* sortBy.split(':') for the sort specifications of type SortBy
Split(sortBy) ==
    CASE sortBy = "Filename:asc"  -> <<"Filename", "asc">>
      [] sortBy = "Filename:desc" -> <<"Filename", "desc">>
      [] sortBy = "Size:asc"      -> <<"Size", "asc">>
      [] sortBy = "Size:desc"     -> <<"Size", "desc">>
      [] sortBy = "Change:asc"    -> <<"Change", "asc">>
      [] sortBy = "Change:desc"   -> <<"Change", "desc">>

columnIndex(sortByColumn) ==
    CASE sortByColumn = "Filename" -> "filename"
      [] sortByColumn = "Size"     -> "size"
      [] sortByColumn = "Change"   -> "delta"

\* a[idx].toString()
KeyText(file, idx) == IF idx = "filename" THEN file.filename ELSE IntChars(file[idx])

\* the compare function handed to files.sort
CompareFiles(a, b, sortBy) ==
    LET idx == columnIndex(Split(sortBy)[1])
    IN  IF Split(sortBy)[2] = "asc"
        THEN localeCompare(KeyText(a, idx), KeyText(b, idx))
        ELSE localeCompare(KeyText(b, idx), KeyText(a, idx))

\* a variant of Insert that puts x before the records that compare equal (a sort
\* that is not stable)
RECURSIVE InsertBeforeEqual(_, _, _)
InsertBeforeEqual(sorted, x, sortBy) ==
    IF sorted = <<>> THEN <<x>>
    ELSE IF CompareFiles(Head(sorted), x, sortBy) >= 0 THEN <<x>> \o sorted
    ELSE <<Head(sorted)>> \o InsertBeforeEqual(Tail(sorted), x, sortBy)

\* x put into a sorted list where a stable sort puts it: before the first record
\* that compares greater than x, after every record that compares equal
RECURSIVE Insert(_, _, _)
Insert(sorted, x, sortBy) ==
    IF sorted = <<>> THEN <<x>>
    ELSE IF CompareFiles(Head(sorted), x, sortBy) > 0 THEN <<x>> \o sorted
    ELSE <<Head(sorted)>> \o Insert(Tail(sorted), x, sortBy)

\* Array.prototype.sort with the compare function above (a stable sort, as
\* ECMAScript 2019 requires): the
\* records of rest put one after the other into the sorted list
RECURSIVE SortInto(_, _, _)
SortInto(sorted, rest, sortBy) ==
    IF rest = <<>> THEN sorted
    ELSE SortInto(Insert(sorted, Head(rest), sortBy), Tail(rest), sortBy)

SortFiles(list, sortBy) == SortInto(<<>>, list, sortBy)

-----------------------------------------------------------------------------
(* getSortOrder *)

\* String.prototype.split(separator) on the characters of a string: the pieces
\* between the separators
RECURSIVE SplitChars(_, _, _)
SplitChars(chars, separator, piece) ==
    IF chars = <<>> THEN <<piece>>
    ELSE IF Head(chars) = separator
         THEN <<piece>> \o SplitChars(Tail(chars), separator, <<>>)
         ELSE SplitChars(Tail(chars), separator, Append(piece, Head(chars)))

validColumns ==
    << <<"F", "i", "l", "e", "n", "a", "m", "e">>, <<"S", "i", "z", "e">>,
       <<"C", "h", "a", "n", "g", "e">> >>

validDirections == << <<"a", "s", "c">>, <<"d", "e", "s", "c">> >>

\* Array.prototype.includes
Includes(array, value) == \E i \in 1..Len(array) : array[i] = value

\* 'Filename:asc'
DefaultSortOrder == validColumns[1] \o <<":">> \o validDirections[1]

\* getSortOrder: what it returns and whether it wrote a warning.  The array
\* destructuring takes the first two parts; the second is undefined, which no
\* array includes, for a string with no ":"
getSortOrder(sortBy) ==
    LET parts == SplitChars(sortBy, ":", <<>>)
    IN  IF /\ Includes(validColumns, parts[1])
           /\ Len(parts) >= 2 /\ Includes(validDirections, parts[2])
        THEN [returned |-> sortBy, warned |-> FALSE]
        ELSE [returned |-> DefaultSortOrder, warned |-> TRUE]

-----------------------------------------------------------------------------
(* stripHash *)

\* JavaScript values: undefined, a string (its characters; a pattern is the string
\* of its tokens), a number, an object
UndefinedValue == [type |-> "undefined", chars |-> <<>>, number |-> 0]
StringValue(chars) == [type |-> "string", chars |-> chars, number |-> 0]
NumberValue(n) == [type |-> "number", chars |-> <<>>, number |-> n]
ObjectValue == [type |-> "object", chars |-> <<>>, number |-> 0]

\* ToBoolean: undefined, '' and 0 are falsy
Truthy(value) ==
    \/ value.type = "object"
    \/ value.type = "string" /\ value.chars # <<>>
    \/ value.type = "number" /\ value.number # 0

\* the tokens of a pattern: a letter, an escaped dot, the class of word
\* characters, and the parentheses of a group, of a named group and of a group
\* that may be left out
IsAtom(token) == token \in { "a", "b", "\\.", "\\w" }
OpensGroup(token) == token \in { "(", "(?<hash>" }
ClosesGroup(token) == token \in { ")", ")?" }

WordCharacters == { "a", "b" }

\* one character against one atom
AtomMatches(token, c) ==
    CASE token = "\\w" -> c \in WordCharacters
      [] token = "\\." -> c = "."
      [] OTHER      -> c = token

NoGroup == [open |-> FALSE, named |-> FALSE, body |-> <<>>]

AtomItem(token) ==
    [kind |-> "atom", body |-> <<token>>, optional |-> FALSE, named |-> FALSE]

GroupItem(group, optional) ==
    [kind |-> "group", body |-> group.body, optional |-> optional, named |-> group.named]

SyntaxError == [valid |-> FALSE, items |-> <<>>, named |-> FALSE]

\* the parser of new RegExp(pattern): the items of a pattern, or a SyntaxError
\* for a group that is not closed and for a ")" that closes nothing.  The
\* patterns of the model have no group within a group
RECURSIVE ParseTokens(_, _, _)
ParseTokens(tokens, items, group) ==
    IF tokens = <<>>
    THEN IF group.open THEN SyntaxError
         ELSE [valid |-> TRUE, items |-> items,
               named |-> \E i \in 1..Len(items) : items[i].named]
    ELSE LET token == Head(tokens)
         IN  CASE IsAtom(token) /\ group.open ->
                    ParseTokens(Tail(tokens), items,
                                [group EXCEPT !.body = Append(@, token)])
               [] IsAtom(token) /\ ~group.open ->
                    ParseTokens(Tail(tokens), Append(items, AtomItem(token)), group)
               [] OpensGroup(token) /\ ~group.open ->
                    ParseTokens(Tail(tokens), items,
                                [open |-> TRUE, named |-> token = "(?<hash>", body |-> <<>>])
               [] ClosesGroup(token) /\ group.open ->
                    ParseTokens(Tail(tokens),
                                Append(items, GroupItem(group, token = ")?")), NoGroup)
               [] ClosesGroup(token) /\ ~group.open -> SyntaxError

\* new RegExp(pattern)
RegExp(pattern) == ParseTokens(pattern, <<>>, NoGroup)

\* the atoms of body match the characters of text from position pos on
BodyMatches(body, text, pos) ==
    /\ pos + Len(body) - 1 <= Len(text)
    /\ \A i \in 1..Len(body) : AtomMatches(body[i], text[pos + i - 1])

NoMatch == [matched |-> FALSE, index |-> 0, end |-> 0, captures |-> <<>>]

\* the backtracking matcher: the items against text from position pos on.  A
\* group that may be left out is tried first (it is greedy) and left out when
\* the rest does not match after it.  A capture keeps where it was taken
RECURSIVE MatchItems(_, _, _, _)
MatchItems(items, text, pos, captures) ==
    IF items = <<>>
    THEN [matched |-> TRUE, index |-> 0, end |-> pos, captures |-> captures]
    ELSE LET item == Head(items)
             taken == [participated |-> TRUE, from |-> pos, to |-> pos + Len(item.body) - 1]
             left  == [participated |-> FALSE, from |-> 0, to |-> 0]
             with  == IF BodyMatches(item.body, text, pos)
                      THEN MatchItems(Tail(items), text, pos + Len(item.body),
                                      IF item.kind = "group" THEN Append(captures, taken)
                                      ELSE captures)
                      ELSE NoMatch
         IN  IF with.matched THEN with
             ELSE IF item.optional
                  THEN MatchItems(Tail(items), text, pos, Append(captures, left))
                  ELSE NoMatch

\* RegExp.prototype.exec: the first position of text, from pos on, at which the
\* items match
RECURSIVE Exec(_, _, _)
Exec(items, text, pos) ==
    IF pos > Len(text) + 1 THEN NoMatch
    ELSE LET m == MatchItems(items, text, pos, <<>>)
         IN  IF m.matched THEN [m EXCEPT !.index = pos] ELSE Exec(items, text, pos + 1)

\* String.prototype.indexOf, counted from 1; 0 when search is not in str
RECURSIVE IndexOf(_, _, _)
IndexOf(str, search, pos) ==
    IF pos + Len(search) - 1 > Len(str) THEN 0
    ELSE IF SubSeq(str, pos, pos + Len(search) - 1) = search THEN pos
    ELSE IndexOf(str, search, pos + 1)

\* str.replace(search, replacement) for two strings: the first occurrence of
\* search in str is replaced
ReplaceFirst(str, search, replacement) ==
    LET at == IndexOf(str, search, 1)
    IN  IF at = 0 THEN str
        ELSE SubSeq(str, 1, at - 1) \o replacement \o SubSeq(str, at + Len(search), Len(str))

\* hash.replace(/./g, '*')
Stars(hash) == [i \in 1..Len(hash) |-> "*"]

\* the loop over the hashes: every hash is searched in str and its first
\* occurrence is replaced by asterisks.  A hash that is a number other than 0
\* has no replace method: the call throws a TypeError
RECURSIVE MaskHashes(_, _)
MaskHashes(str, hashes) ==
    IF hashes = <<>> THEN [threw |-> FALSE, str |-> str]
    ELSE LET hash == IF Truthy(Head(hashes)) THEN Head(hashes) ELSE StringValue(<<>>)
         IN  IF hash.type # "string" THEN [threw |-> TRUE, str |-> str]
             ELSE MaskHashes(ReplaceFirst(str, hash.chars, Stars(hash.chars)), Tail(hashes))

\* Array.prototype.filter((c) => c != null)
RECURSIVE FilterNotNull(_)
FilterNotNull(values) ==
    IF values = <<>> THEN <<>>
    ELSE IF Head(values).type = "undefined" THEN FilterNotNull(Tail(values))
    ELSE <<Head(values)>> \o FilterNotNull(Tail(values))

\* the arguments that String.prototype.replace hands to the replacer function
\* after the matched string: the captures (undefined for a group that took no
\* part), the offset of the match counted from 0, the whole string and, for a
\* pattern with a named group, the object of the named groups
ReplacerArguments(re, m, text) ==
    [i \in 1..Len(m.captures) |->
        IF m.captures[i].participated
        THEN StringValue(SubSeq(text, m.captures[i].from, m.captures[i].to))
        ELSE UndefinedValue]
        \o <<NumberValue(m.index - 1), StringValue(text)>>
        \o (IF re.named THEN <<ObjectValue>> ELSE <<>>)

\* the replacer function (str, ...hashes) => ...
Replacer(str, arguments) ==
    LET hashes == FilterNotNull(SubSeq(arguments, 1, Len(arguments) - 2))
    IN  IF Len(hashes) # 0 THEN MaskHashes(str, hashes)
        ELSE [threw |-> FALSE, str |-> <<>>]

\* the function that stripHash returns, applied to a file name: what the call
\* returned, or that it threw
Normalize(regex, fileName) ==
    LET re == RegExp(regex.chars)
    IN  IF ~re.valid THEN [status |-> "threw", value |-> <<>>]
        ELSE LET m == Exec(re.items, fileName, 1)
             IN  IF ~m.matched THEN [status |-> "returned", value |-> fileName]
                 ELSE LET str == SubSeq(fileName, m.index, m.end - 1)
                          replaced == Replacer(str, ReplacerArguments(re, m, fileName))
                      IN  IF replaced.threw THEN [status |-> "threw", value |-> <<>>]
                          ELSE [status |-> "returned",
                                value |-> SubSeq(fileName, 1, m.index - 1) \o replaced.str
                                            \o SubSeq(fileName, m.end, Len(fileName))]

\* what stripHash returns: undefined, or a function that keeps the pattern
UndefinedFunction == [type |-> "undefined", regex |-> UndefinedValue]
NormalizerFunction(regex) == [type |-> "function", regex |-> regex]

\* a variant of stripHash that returns a function for every string
stripHashOfAnyString(regex) ==
    IF regex.type = "string"
    THEN [status |-> "returned", value |-> NormalizerFunction(regex)]
    ELSE [status |-> "returned", value |-> UndefinedFunction]

\* stripHash(regex): the pattern is not compiled here
stripHash(regex) ==
    IF Truthy(regex)
    THEN [status |-> "returned", value |-> NormalizerFunction(regex)]
    ELSE [status |-> "returned", value |-> UndefinedFunction]

-----------------------------------------------------------------------------
(* markdownTable *)

Pop(columns) == SubSeq(columns, 1, Len(columns) - 1)

\* !columns[columns.length - 1]
LastIsEmpty(columns) == Len(columns) = 0 \/ columns[Len(columns)] = ""

\* a variant of SkipEmptyColumns that skips no column
SkipNoColumns(rows) == rows

\* the loop that skips all empty columns.  On rows that are all of length 0 the
\* code's loop never ends; the model stops there (diffTable builds no such rows)
RECURSIVE SkipEmptyColumns(_)
SkipEmptyColumns(rows) ==
    IF (\A i \in 1..Len(rows) : LastIsEmpty(rows[i])) /\ (\E i \in 1..Len(rows) : Len(rows[i]) > 0)
    THEN SkipEmptyColumns([i \in 1..Len(rows) |-> Pop(rows[i])])
    ELSE rows

\* how often the body of the loop that skips the empty columns runs
RECURSIVE SkippedColumns(_)
SkippedColumns(rows) ==
    IF (\A i \in 1..Len(rows) : LastIsEmpty(rows[i])) /\ (\E i \in 1..Len(rows) : Len(rows[i]) > 0)
    THEN 1 + SkippedColumns([i \in 1..Len(rows) |-> Pop(rows[i])])
    ELSE 0

HeaderRow == <<"Filename", "Size", "Change", "">>
AlignRow == <<":---", ":---:", ":---:", ":---:">>

\* markdownTable on at least one row: the lines of the table, each the sequence
\* of its cells
RenderTable(rows) ==
    LET skipped    == SkipEmptyColumns(rows)
        firstRow   == skipped[1]
        hideChange == Len(firstRow) = 3
                      /\ \A i \in 1..Len(skipped) : skipped[i][3] = "0 B"
        columnLength == IF hideChange THEN Len(firstRow) - 1 ELSE Len(firstRow)
        body       == IF hideChange
                      THEN [i \in 1..Len(skipped) |-> Pop(skipped[i])]
                      ELSE skipped
    IN  IF columnLength = 0 THEN <<>>
        ELSE <<SubSeq(HeaderRow, 1, columnLength), SubSeq(AlignRow, 1, columnLength)>>
                 \o body

\* a variant of markdownTable that renders header and alignment row for no rows
markdownTableHeaderOnly(rows) ==
    IF Len(rows) = 0 THEN <<HeaderRow, AlignRow>> ELSE RenderTable(rows)

markdownTable(rows) ==
    IF Len(rows) = 0 THEN <<>> ELSE RenderTable(rows)

-----------------------------------------------------------------------------
(* diffTable *)

\* a variant of IsUnchanged that takes a delta equal to the threshold as unchanged
IsUnchangedInclusive(delta, minimumChangeThreshold) == Abs(delta) <= minimumChangeThreshold

\* const isUnchanged = Math.abs(delta) < minimumChangeThreshold
IsUnchanged(delta, minimumChangeThreshold) == Abs(delta) < minimumChangeThreshold

\* the backquote that code-quotes a file name (a TLA+ string cannot hold one)
CodeQuote == "'"

\* a variant of Row that leaves the Change cell of a file of delta 0 empty
RowNoTextForNoChange(file) ==
    LET originalSize == file.size - file.delta
    IN  << CodeQuote \o Join(file.filename) \o CodeQuote,
           prettyBytes(file.size),
           IF file.delta = 0 THEN "" ELSE getDeltaText(file.delta, originalSize),
           iconForDifference(file.delta, originalSize) >>

\* a variant of Row that takes the size of a file for its original size
RowOriginalSizeIsSize(file) ==
    << CodeQuote \o Join(file.filename) \o CodeQuote,
       prettyBytes(file.size),
       getDeltaText(file.delta, file.size),
       iconForDifference(file.delta, file.size) >>

\* the row of a file
Row(file) ==
    LET originalSize == file.size - file.delta
    IN  << CodeQuote \o Join(file.filename) \o CodeQuote,
           prettyBytes(file.size),
           getDeltaText(file.delta, originalSize),
           iconForDifference(file.delta, originalSize) >>

\* a variant of LoopBody that tests collapseUnchanged before omitUnchanged
LoopBodyCollapseFirst(acc, file, opts) ==
    LET isUnchanged == IsUnchanged(file.delta, opts.minimumChangeThreshold)
        totals == [acc EXCEPT !.totalSize = @ + file.size, !.totalDelta = @ + file.delta]
    IN  IF isUnchanged /\ opts.collapseUnchanged
        THEN [totals EXCEPT !.unChangedRows = Append(@, Row(file))]
        ELSE IF isUnchanged /\ opts.omitUnchanged THEN totals
             ELSE [totals EXCEPT !.changedRows = Append(@, Row(file))]

\* a variant of LoopBody that pushes a collapsed row onto the changed rows as well
LoopBodyPushBoth(acc, file, opts) ==
    LET isUnchanged == IsUnchanged(file.delta, opts.minimumChangeThreshold)
        totals == [acc EXCEPT !.totalSize = @ + file.size, !.totalDelta = @ + file.delta]
    IN  IF isUnchanged /\ opts.omitUnchanged THEN totals
        ELSE IF isUnchanged /\ opts.collapseUnchanged
             THEN [totals EXCEPT !.unChangedRows = Append(@, Row(file)),
                                 !.changedRows = Append(@, Row(file))]
             ELSE [totals EXCEPT !.changedRows = Append(@, Row(file))]

\* a variant of LoopBody that adds up the totals after the omitted records are skipped
LoopBodyTotalsAfterOmit(acc, file, opts) ==
    LET isUnchanged == IsUnchanged(file.delta, opts.minimumChangeThreshold)
        totals == [acc EXCEPT !.totalSize = @ + file.size, !.totalDelta = @ + file.delta]
    IN  IF isUnchanged /\ opts.omitUnchanged THEN acc
        ELSE IF isUnchanged /\ opts.collapseUnchanged
             THEN [totals EXCEPT !.unChangedRows = Append(@, Row(file))]
             ELSE [totals EXCEPT !.changedRows = Append(@, Row(file))]

\* one pass of the loop over the sorted files
LoopBody(acc, file, opts) ==
    LET isUnchanged == IsUnchanged(file.delta, opts.minimumChangeThreshold)
        totals == [acc EXCEPT !.totalSize = @ + file.size, !.totalDelta = @ + file.delta]
    IN  IF isUnchanged /\ opts.omitUnchanged THEN totals
        ELSE IF isUnchanged /\ opts.collapseUnchanged
             THEN [totals EXCEPT !.unChangedRows = Append(@, Row(file))]
             ELSE [totals EXCEPT !.changedRows = Append(@, Row(file))]

RECURSIVE Loop(_, _, _)
Loop(acc, list, opts) ==
    IF list = <<>> THEN acc ELSE Loop(LoopBody(acc, Head(list), opts), Tail(list), opts)

\* the two summary lines that showTotal prepends, the Size Change line first
SummaryLines(totalSize, totalDelta) ==
    LET totalOriginalSize == totalSize - totalDelta
        totalDeltaText == getDeltaText(totalDelta, totalOriginalSize)
        totalIcon == iconForDifference(totalDelta, totalOriginalSize)
    IN  << "**Size Change:** " \o totalDeltaText \o " " \o totalIcon,
           "**Total Size:** " \o prettyBytes(totalSize) >>

NoReport(status) ==
    [status |-> status, summary |-> <<>>, main |-> <<>>,
     details |-> [rendered |-> FALSE, table |-> <<>>]]

\* a call of diffTable: the array as the call leaves it, and the report returned
\* (its parts in the order of the text: summary lines, main table, details block)
diffTable(list, opts) ==
    IF opts.sortBy = Undefined
    THEN \* sortBy.split(':') throws a TypeError before anything else is done
         [files |-> list, out |-> NoReport("threw")]
    ELSE LET sorted == SortFiles(list, opts.sortBy)
             acc == Loop([changedRows |-> <<>>, unChangedRows |-> <<>>,
                          totalSize |-> 0, totalDelta |-> 0], sorted, opts)
         IN  [files |-> sorted,
              out |-> [status |-> "returned",
                       summary |-> IF opts.showTotal
                                   THEN SummaryLines(acc.totalSize, acc.totalDelta)
                                   ELSE <<>>,
                       main |-> markdownTable(acc.changedRows),
                       details |-> IF Len(acc.unChangedRows) # 0
                                   THEN [rendered |-> TRUE,
                                         table |-> markdownTable(acc.unChangedRows)]
                                   ELSE [rendered |-> FALSE, table |-> <<>>]]]

-----------------------------------------------------------------------------
(* The inputs of the model *)

FileNames == { <<"a">>, <<"f", "2">>, <<"f", "1", "0">> }

\* <<size, delta>> of a record; size - delta, the original size, is never negative
\* an unchanged file, an empty file, a file grown by 1 B, a removed file of 2 B, a
\* file shrunk by 300 B and a new file
Measures == { <<300, 0>>, <<0, 0>>, <<200, 1>>, <<0, -2>>, <<1500, -300>>, <<210, 210>> }

Diffs == { [filename |-> f, size |-> m[1], delta |-> m[2]] : f \in FileNames, m \in Measures }

\* the record lists handed to diffTable, in every order.  The keys of a size
\* mapping are unique: no two records of a list share a filename
DiffLists ==
    UNION { { l \in [1..n -> Diffs] :
                \A i, j \in 1..n : i # j => l[i].filename # l[j].filename } : n \in 0..MaxFiles }

SortBys == { "Filename:asc", "Filename:desc", "Size:asc", "Size:desc", "Change:asc", "Change:desc" }

Thresholds == { 1, 2 }

Options ==
    [ showTotal : BOOLEAN, collapseUnchanged : BOOLEAN, omitUnchanged : BOOLEAN,
      minimumChangeThreshold : Thresholds, sortBy : SortBys \cup {Undefined} ]

-----------------------------------------------------------------------------
(* The state machine: a caller holding a record list and calling diffTable *)

\* no delta text and no icon has been asked for
NoChange == [delta |-> 0, originalSize |-> 0, deltaText |-> NotCalled, icon |-> NotCalled]

\* getSortOrder has not been called
NoSortOrder == [sortBy |-> <<>>, called |-> FALSE, returned |-> <<>>, warned |-> FALSE]

\* the action is not running
NoRun == [pc |-> "idle"]

\* stripHash has not been called
NoStrip ==
    [regex |-> UndefinedValue, setup |-> NotCalled, normalizer |-> UndefinedFunction,
     plugin |-> [stripHash |-> UndefinedFunction],
     fileName |-> <<>>, applied |-> NotCalled, result |-> <<>>]

Init ==
    /\ files \in DiffLists
    /\ options \in Options
    /\ out = NoReport("none")
    /\ change = NoChange
    /\ sortOrder = NoSortOrder
    /\ strip = NoStrip
    /\ run = NoRun

\* markdownDiff = diffTable(files, options)
DiffTable ==
    /\ LET call == diffTable(files, options)
       IN  files' = call.files /\ out' = call.out
    /\ UNCHANGED <<options, change, sortOrder, strip, run>>

Next == DiffTable

Spec == Init /\ [][Next]_vars

-----------------------------------------------------------------------------
(* The state machine of getDeltaText and iconForDifference: a caller holding a
   delta and an original size and asking for the delta text and for the icon *)

\* largest abs(delta) of the deltas that are tried with every original size
MaxDelta == 60

Deltas == (-MaxDelta)..MaxDelta

\* original sizes: none (a new file), three sizes whose percentages are exact in
\* binary floating point and hit the halves and the hundredths that are rounded,
\* and one so large that a percentage rounds to zero
OriginalSizes == { 0, 8, 32, 100, 32768 }

\* <<delta, originalSize>> of the calls of the tests, and percentages that are
\* half-way between the last integer outside a band and the first inside it
TestedChanges ==
    { <<5000, 20000>>, <<-5000, 20000>>, <<210, 0>>, <<0, 0>>, <<4875, 20000>>,
      <<-4875, 20000>>, <<0, 5000>>, <<5500, 5000>>, <<-550, 5000>>,
      <<9, 200>>, <<19, 200>>, <<39, 200>>, <<99, 200>>,
      <<-11, 200>>, <<-21, 200>>, <<-41, 200>>, <<-101, 200>> }

Changes == (Deltas \X OriginalSizes) \cup TestedChanges

\* no diffTable call is part of this state machine
NoDiffTable ==
    /\ files = <<>>
    /\ options = [showTotal |-> FALSE, collapseUnchanged |-> FALSE, omitUnchanged |-> FALSE,
                  minimumChangeThreshold |-> 1, sortBy |-> Undefined]
    /\ out = NoReport("none")

InitChange ==
    /\ NoDiffTable
    /\ sortOrder = NoSortOrder
    /\ strip = NoStrip
    /\ run = NoRun
    /\ change \in { [delta |-> c[1], originalSize |-> c[2],
                      deltaText |-> NotCalled, icon |-> NotCalled] : c \in Changes }

\* getDeltaText(delta, originalSize)
GetDeltaText ==
    /\ change' = [change EXCEPT !.deltaText = getDeltaText(change.delta, change.originalSize)]
    /\ UNCHANGED <<files, options, out, sortOrder, strip, run>>

\* iconForDifference(delta, originalSize)
IconForDifference ==
    /\ change' = [change EXCEPT !.icon = iconForDifference(change.delta, change.originalSize)]
    /\ UNCHANGED <<files, options, out, sortOrder, strip, run>>

NextChange == GetDeltaText \/ IconForDifference

SpecChange == InitChange /\ [][NextChange]_vars

-----------------------------------------------------------------------------
(* The state machine of getSortOrder: a caller holding the sort specification of
   the user and asking for the sort order *)

\* most parts, separated by ":", of a sort specification of the user
MaxParts == 3

\* the words that the user puts between the ":" of a sort specification: the
\* valid columns and directions, a column in lower case, nothing, something else
Words ==
    { validColumns[i] : i \in 1..Len(validColumns) }
        \cup { validDirections[i] : i \in 1..Len(validDirections) }
        \cup { <<"s", "i", "z", "e">>, <<>>, <<"x">> }

\* the words of parts with a ":" between them
RECURSIVE JoinParts(_)
JoinParts(parts) ==
    IF Len(parts) = 1 THEN parts[1]
    ELSE parts[1] \o <<":">> \o JoinParts(Tail(parts))

SortByInputs == { JoinParts(parts) : parts \in UNION { [1..n -> Words] : n \in 1..MaxParts } }

InitSortOrder ==
    /\ NoDiffTable
    /\ change = NoChange
    /\ strip = NoStrip
    /\ run = NoRun
    /\ sortOrder \in { [sortBy |-> s, called |-> FALSE, returned |-> <<>>, warned |-> FALSE] :
                          s \in SortByInputs }

\* getSortOrder(sortBy)
GetSortOrder ==
    /\ LET call == getSortOrder(sortOrder.sortBy)
       IN  sortOrder' = [sortOrder EXCEPT !.called = TRUE,
                                          !.returned = call.returned,
                                          !.warned = call.warned]
    /\ UNCHANGED <<files, options, out, change, strip, run>>

NextSortOrder == GetSortOrder

SpecSortOrder == InitSortOrder /\ [][NextSortOrder]_vars

-----------------------------------------------------------------------------
(* The state machine of stripHash: the orchestrator builds the normalizer from
   the strip-hash input and hands it to the size plugin, which applies it to a
   file name *)

\* longest file name handed to the normalizer
MaxNameLen == 3

FileNameCharacters == { "a", "b", "." }

HashedFileNames == UNION { [1..n -> FileNameCharacters] : n \in 0..MaxNameLen }

\* the patterns of the model, token by token
Patterns ==
    { <<"\\w", "\\w", "\\.">>,                     \* \w\w\.           no group
      <<"a">>,                                    \* a                 no group
      <<"\\.", "(", "\\w", ")", "\\.">>,            \* \.(\w)\.         a group
      <<"\\w", "\\.", "(", "\\w", ")">>,            \* \w\.(\w)         a group
      <<"(", "\\w", ")", "\\.", "(", "\\w", ")">>,  \* (\w)\.(\w)       two groups
      <<"(", "\\w", ")?", "\\.">>,                  \* (\w)?\.           a group that may be left out
      <<"(", ")", "\\.">>,                          \* ()\.              a group that captures ''
      <<"(?<hash>", "\\w", ")?", "\\.">>,           \* (?<hash>\w)?\.    named, may be left out
      <<"\\.", "(", "\\w", ")?">>,                  \* \.(\w)?           a group that may be left out
      <<"\\.", "(?<hash>", "\\w", ")?">>,           \* \.(?<hash>\w)?    named, may be left out
      <<"(", "\\w">>,                               \* (\w               not valid
      <<"\\w", ")">> }                              \* \w)               not valid

\* what stripHash is called with: a pattern, the empty string (the strip-hash
\* input that was not set), nothing
StripHashInputs == { StringValue(pattern) : pattern \in Patterns \cup { <<>> } } \cup { UndefinedValue }

InitStripHash ==
    /\ NoDiffTable
    /\ change = NoChange
    /\ sortOrder = NoSortOrder
    /\ run = NoRun
    /\ strip \in { [NoStrip EXCEPT !.regex = regex, !.fileName = fileName] :
                      regex \in StripHashInputs, fileName \in HashedFileNames }

\* new SizePlugin({ ..., stripHash: stripHash(inputs.stripHash) })
StripHash ==
    /\ LET call == stripHash(strip.regex)
       IN  strip' = [strip EXCEPT !.setup = call.status,
                                  !.normalizer = call.value,
                                  !.plugin = [stripHash |-> call.value]]
    /\ UNCHANGED <<files, options, out, change, sortOrder, run>>

\* the size plugin applies the function it was given to a file name
ApplyStripHash ==
    /\ strip.plugin.stripHash.type = "function"
    /\ LET call == Normalize(strip.plugin.stripHash.regex, strip.fileName)
       IN  strip' = [strip EXCEPT !.applied = call.status, !.result = call.value]
    /\ UNCHANGED <<files, options, out, change, sortOrder, run>>

NextStripHash == StripHash \/ ApplyStripHash

SpecStripHash == InitStripHash /\ [][NextStripHash]_vars

-----------------------------------------------------------------------------
(* The action's run: src/src/index.js *)

\* a JavaScript number that may be NaN
Number(n) == [nan |-> FALSE, value |-> n]
NaN == [nan |-> TRUE, value |-> 0]

\* parseInt(string, 10) of a string of digits and letters: the leading digits, NaN
\* when there is none
LeadingDigits(chars) ==
    LET RECURSIVE Upto(_)
        Upto(i) == IF i > Len(chars) \/ ~IsDigit(chars[i]) THEN i - 1 ELSE Upto(i + 1)
    IN  SubSeq(chars, 1, Upto(1))

parseInt(chars) ==
    IF LeadingDigits(chars) = <<>> THEN NaN ELSE Number(NumericValue(LeadingDigits(chars)))

\* number || 1: NaN and 0 are falsy
OrOne(number) == IF number.nan \/ number.value = 0 THEN Number(1) ELSE number

\* toBool(v): /^(1|true|yes)$/.test(v)
toBool(v) == v \in { "1", "true", "yes" }

\* the inputs object, from the values the workflow gives (getInput returns '' for
\* an input that is not given)
ReadInputs(with) ==
    [cleanScript |-> with.cleanScript,
     installScript |-> with.installScript,
     buildScript |-> IF with.buildScript # "" THEN with.buildScript ELSE "build",
     useCheck |-> toBool(with.useCheck),
     minimumChangeThreshold |-> OrOne(parseInt(with.minimumChangeThreshold)),
     commentKey |-> with.commentKey]

\* a variant of the package manager detection that looks for pnpm-lock.yaml first
getPackageManagerPnpmFirst(present) ==
    IF "pnpm-lock.yaml" \in present
    THEN [packageManager |-> "pnpm", installScript |-> "pnpm install --frozen-lockfile"]
    ELSE IF "yarn.lock" \in present
    THEN [packageManager |-> "yarn", installScript |-> "yarn --frozen-lockfile"]
    ELSE IF "bun.lockb" \in present \/ "bun.lock" \in present
    THEN [packageManager |-> "bun", installScript |-> "bun install --frozen-lockfile"]
    ELSE IF "package-lock.json" \in present
    THEN [packageManager |-> "npm", installScript |-> "npm ci"]
    ELSE [packageManager |-> "npm", installScript |-> "npm install"]

\* getPackageManagerAndInstallScript(cwd), present being the files of cwd for which
\* fileExists is true
getPackageManagerAndInstallScript(present) ==
    IF "yarn.lock" \in present
    THEN [packageManager |-> "yarn", installScript |-> "yarn --frozen-lockfile"]
    ELSE IF "pnpm-lock.yaml" \in present
    THEN [packageManager |-> "pnpm", installScript |-> "pnpm install --frozen-lockfile"]
    ELSE IF "bun.lockb" \in present \/ "bun.lock" \in present
    THEN [packageManager |-> "bun", installScript |-> "bun install --frozen-lockfile"]
    ELSE IF "package-lock.json" \in present
    THEN [packageManager |-> "npm", installScript |-> "npm ci"]
    ELSE [packageManager |-> "npm", installScript |-> "npm install"]

\* a variant of the event test that lets every event through
IsSupportedEventAlways(eventName) == TRUE

\* the events run() accepts
IsSupportedEvent(eventName) ==
    eventName \in { "push", "pull_request", "pull_request_target" }

\* the catch of the main function: setFailed(e.message) ends the run
Throw(r, message) == [r EXCEPT !.pc = "failed", !.failed = message]

\* the message of the error exec rejects with when a command exits with a failure
ExecError(command) == "The process failed: " \o command

\* await exec(command) at a step of run(): the command is recorded with its
\* outcome; a failure that no try block of run() catches ends the run
Executed(r, step, command, ok) ==
    [r EXCEPT !.executed = Append(@, [step |-> step, revision |-> r.tree.revision,
                                      command |-> command, ok |-> ok])]

exec(r, step, command, ok, next) ==
    IF ok
    THEN [Executed(r, step, command, ok) EXCEPT !.pc = next]
    ELSE Throw(Executed(r, step, command, ok), ExecError(command))

\* the sizes of the files a build of a revision leaves on disk, as the size plugin
\* maps them (file name to size, in the order of the keys)
BuiltSizes(built) ==
    CASE built = "current" -> << [filename |-> <<"a">>, size |-> 300],
                                 [filename |-> <<"f", "2">>, size |-> 200] >>
      [] built = "base"    -> << [filename |-> <<"a">>, size |-> 300],
                                 [filename |-> <<"f", "1", "0">>, size |-> 1500] >>
      [] OTHER             -> << >>

\* no sizes have been read
NoSizes == [read |-> FALSE, revision |-> "none", installed |-> "none", built |-> "none",
            sizes |-> << >>]

\* plugin.readFromDisk(cwd): the sizes of what is on disk, with the state of the
\* working tree they were read in
readFromDisk(tree) ==
    [read |-> TRUE, revision |-> tree.revision, installed |-> tree.installed,
     built |-> tree.built, sizes |-> BuiltSizes(tree.built)]

\* sizes[filename] || 0
SizeIn(sizes, filename) ==
    LET at == { i \in 1..Len(sizes) : sizes[i].filename = filename }
    IN  IF at = {} THEN 0 ELSE sizes[CHOOSE i \in at : TRUE].size

\* plugin.getDiff(sizesBefore, sizesAfter): a record for every file name of either
\* mapping, the size being the one after and the delta the size after minus the
\* size before
getDiff(sizesBefore, sizesAfter) ==
    LET added == SelectSeq(sizesAfter, LAMBDA s : SizeIn(sizesBefore, s.filename) = 0
                              /\ \A i \in 1..Len(sizesBefore) : sizesBefore[i].filename # s.filename)
        names == [i \in 1..(Len(sizesBefore) + Len(added)) |->
                    IF i <= Len(sizesBefore) THEN sizesBefore[i].filename
                    ELSE added[i - Len(sizesBefore)].filename]
    IN  [i \in 1..Len(names) |->
            [filename |-> names[i],
             size |-> SizeIn(sizesAfter, names[i]),
             delta |-> SizeIn(sizesAfter, names[i]) - SizeIn(sizesBefore, names[i])]]

\* a variant of the getDiff call with its arguments exchanged
DiffOfRunNewAsOld(r) == getDiff(r.newSizes.sizes, r.oldSizes.sizes)

\* const diff = await plugin.getDiff(oldSizes, newSizes)
DiffOfRun(r) == getDiff(r.oldSizes.sizes, r.newSizes.sizes)

\* the options object of the diffTable call of run(): the threshold is parsed
\* again, and there is no sortBy.  (diffTable throws before it reads the
\* threshold, which is a number that may be NaN here.)
DiffTableOptions(with) ==
    [showTotal |-> toBool(with.showTotal),
     collapseUnchanged |-> toBool(with.collapseUnchanged),
     omitUnchanged |-> toBool(with.omitUnchanged),
     minimumChangeThreshold |-> parseInt(with.minimumChangeThreshold),
     sortBy |-> Undefined]

\* the message of the TypeError of sortBy.split(':') with sortBy undefined
SplitOfUndefined == "Cannot read properties of undefined (reading 'split')"

UnsupportedEvent(eventName) == "Unsupported eventName in github.context: " \o eventName

\* the five lockfiles the action looks for
Lockfiles == { "yarn.lock", "pnpm-lock.yaml", "bun.lockb", "bun.lock", "package-lock.json" }

\* the lockfiles of the base revision: none, or switching to yarn
BaseLockfiles == { {}, { "yarn.lock" } }

EventNames == { "push", "pull_request", "pull_request_target", "issue_comment" }

\* minimum-change-threshold as the workflow may give it: not given, a number, not
\* a number
ThresholdInputs == { <<>>, <<"5">>, <<"a">> }

\* comment-key as the workflow may give it
CommentKeys == { "", "k" }

\* the comments of the pull request, oldest first as the API lists them: reports
\* of earlier runs, one without a key and two with the key k
ExistingComments ==
    << [id |-> 1, marker |-> "compressed-size-action"],
       [id |-> 2, marker |-> "compressed-size-action::k"],
       [id |-> 3, marker |-> "compressed-size-action::k"] >>

\* the values of the workflow: the inputs that do not matter to the run are fixed
\* at their defaults
Withs ==
    { [cleanScript |-> clean, installScript |-> install, buildScript |-> "",
       useCheck |-> check, minimumChangeThreshold |-> threshold, commentKey |-> key,
       showTotal |-> "true", collapseUnchanged |-> "true", omitUnchanged |-> "false"] :
         clean \in { "", "clean" }, install \in { "", "npm run setup" },
         check \in { "", "true" }, threshold \in ThresholdInputs, key \in CommentKeys }

\* a run about to start: the current revision is checked out, nothing is installed
\* or built, and no API of the repository has been called
StartOfRun(eventName, with, current, base) ==
    [pc |-> "start",
     eventName |-> eventName,
     baseRef |-> "main", baseSha |-> "0a1b2c",
     with |-> with,
     inputs |-> ReadInputs(with),
     lockfiles |-> [current |-> current, base |-> base],
     tree |-> [revision |-> "current", installed |-> "none", built |-> "none"],
     packageManager |-> "", installScript |-> "",
     executed |-> << >>,
     newSizes |-> NoSizes, oldSizes |-> NoSizes,
     diff |-> [computed |-> 0, files |-> << >>],
     printed |-> FALSE,
     diffTableOptions |-> << >>,
     markdownDiff |-> NotCalled,
     comments |-> ExistingComments,
     api |-> << >>,
     rawMarkdown |-> FALSE,
     failed |-> ""]

InitRun ==
    /\ NoDiffTable
    /\ change = NoChange
    /\ sortOrder = NoSortOrder
    /\ strip = NoStrip
    /\ run \in { StartOfRun(eventName, with, current, base) :
                    eventName \in EventNames, with \in Withs,
                    current \in SUBSET Lockfiles, base \in BaseLockfiles }

Others == <<files, options, out, change, sortOrder, strip>>

\* lines 334-350: the base of the comparison, or an error for any other event
CheckEvent ==
    /\ run.pc = "start"
    /\ run' = IF IsSupportedEvent(run.eventName)
              THEN [run EXCEPT !.pc = "detect current"]
              ELSE Throw(run, UnsupportedEvent(run.eventName))
    /\ UNCHANGED Others

\* lines 363-366 and 420-423: the package manager of the working tree, and the
\* install command unless the inputs give one
Detect(r, next) ==
    LET found == getPackageManagerAndInstallScript(r.lockfiles[r.tree.revision])
    IN  [r EXCEPT !.packageManager = found.packageManager,
                  !.installScript = IF r.inputs.installScript # ""
                                    THEN r.inputs.installScript ELSE found.installScript,
                  !.pc = next]

DetectCurrent ==
    /\ run.pc = "detect current"
    /\ run' = Detect(run, "install current")
    /\ UNCHANGED Others

\* await exec(installScript)
Install(r, ok, next) ==
    LET done == exec(r, "install", r.installScript, ok, next)
    IN  IF ok THEN [done EXCEPT !.tree.installed = r.tree.revision] ELSE done

\* await exec(`${packageManager} run ${inputs.buildScript}`)
Build(r, ok, next) ==
    LET done == exec(r, "build", r.packageManager \o " run " \o r.inputs.buildScript, ok, next)
    IN  IF ok THEN [done EXCEPT !.tree.built = r.tree.revision] ELSE done

InstallCurrent ==
    /\ run.pc = "install current"
    /\ \E ok \in BOOLEAN : run' = Install(run, ok, "build current")
    /\ UNCHANGED Others

BuildCurrent ==
    /\ run.pc = "build current"
    /\ \E ok \in BOOLEAN : run' = Build(run, ok, "reset current")
    /\ UNCHANGED Others

\* await exec(`git reset --hard`): tracked files go back to the checked out revision
ResetCurrent ==
    /\ run.pc = "reset current"
    /\ \E ok \in BOOLEAN : run' = exec(run, "reset", "git reset --hard", ok, "read new")
    /\ UNCHANGED Others

\* const newSizes = await plugin.readFromDisk(cwd)
ReadNewSizes ==
    /\ run.pc = "read new"
    /\ run' = [run EXCEPT !.newSizes = readFromDisk(run.tree), !.pc = "fetch"]
    /\ UNCHANGED Others

\* lines 384-401: fetch the base by its ref, else by its sha, else everything; a
\* fetch that fails is logged and nothing more.  fetched is the number of the
\* fetch that succeeded, 4 when none did
FetchBase ==
    /\ run.pc = "fetch"
    /\ \E fetched \in 1..4 :
         LET first == Executed(run, "fetch", "git fetch -n origin " \o run.baseRef \o ":" \o run.baseRef,
                               fetched = 1)
             second == Executed(first, "fetch", "git fetch -n origin " \o run.baseSha, fetched = 2)
             third == Executed(second, "fetch", "git fetch -n", fetched = 3)
         IN  run' = [(CASE fetched = 1 -> first [] fetched = 2 -> second [] OTHER -> third)
                        EXCEPT !.pc = "checkout"]
    /\ UNCHANGED Others

\* lines 404-409: reset the working tree to the base ref, or if that fails to the
\* base sha; what is installed and built stays on disk
CheckoutBase ==
    /\ run.pc = "checkout"
    /\ \E byRef \in BOOLEAN, bySha \in BOOLEAN :
         LET first == Executed(run, "checkout ref", "git reset --hard " \o run.baseRef, byRef)
             moved(r) == [r EXCEPT !.tree.revision = "base", !.pc = "clean"]
         IN  IF byRef
             THEN bySha /\ run' = moved(first)
             ELSE LET second == exec(first, "checkout sha", "git reset --hard " \o run.baseSha,
                                     bySha, "clean")
                  IN  run' = IF bySha THEN moved(second) ELSE second
    /\ UNCHANGED Others

\* lines 412-416: the clean script, if there is one, run with the package manager
\* found for the current revision
CleanBase ==
    /\ run.pc = "clean"
    /\ IF run.inputs.cleanScript = ""
       THEN run' = [run EXCEPT !.pc = "detect base"]
       ELSE \E ok \in BOOLEAN :
              LET done == exec(run, "clean", run.packageManager \o " run " \o run.inputs.cleanScript,
                               ok, "detect base")
              IN  run' = IF ok THEN [done EXCEPT !.tree.built = "none"] ELSE done
    /\ UNCHANGED Others

DetectBase ==
    /\ run.pc = "detect base"
    /\ run' = Detect(run, "install base")
    /\ UNCHANGED Others

InstallBase ==
    /\ run.pc = "install base"
    /\ \E ok \in BOOLEAN : run' = Install(run, ok, "build base")
    /\ UNCHANGED Others

BuildBase ==
    /\ run.pc = "build base"
    /\ \E ok \in BOOLEAN : run' = Build(run, ok, "reset base")
    /\ UNCHANGED Others

ResetBase ==
    /\ run.pc = "reset base"
    /\ \E ok \in BOOLEAN : run' = exec(run, "reset", "git reset --hard", ok, "read old")
    /\ UNCHANGED Others

\* const oldSizes = await plugin.readFromDisk(cwd)
ReadOldSizes ==
    /\ run.pc = "read old"
    /\ run' = [run EXCEPT !.oldSizes = readFromDisk(run.tree), !.pc = "diff"]
    /\ UNCHANGED Others

\* const diff = await plugin.getDiff(oldSizes, newSizes)
GetDiff ==
    /\ run.pc = "diff"
    /\ run' = [run EXCEPT !.diff = [computed |-> @.computed + 1, files |-> DiffOfRun(run)],
                          !.pc = "print"]
    /\ UNCHANGED Others

\* lines 440-443: the size differences are logged
PrintSizes ==
    /\ run.pc = "print"
    /\ run' = [run EXCEPT !.printed = TRUE, !.pc = "report"]
    /\ UNCHANGED Others

\* lines 445-450: const markdownDiff = diffTable(diff, {...}).  The call throws,
\* and the statements after it (the check run, the comment, the review, the raw
\* markdown) are not reached
CallDiffTable ==
    /\ run.pc = "report"
    /\ LET opts == DiffTableOptions(run.with)
           call == diffTable(run.diff.files, opts)
           called == [run EXCEPT !.diffTableOptions = opts, !.markdownDiff = call.out.status]
       IN  /\ call.out.status = "threw"
           /\ run' = Throw(called, SplitOfUndefined)
    /\ UNCHANGED Others

NextRun ==
    \/ CheckEvent
    \/ DetectCurrent \/ InstallCurrent \/ BuildCurrent \/ ResetCurrent \/ ReadNewSizes
    \/ FetchBase \/ CheckoutBase \/ CleanBase
    \/ DetectBase \/ InstallBase \/ BuildBase \/ ResetBase \/ ReadOldSizes
    \/ GetDiff \/ PrintSizes \/ CallDiffTable

SpecRun == InitRun /\ [][NextRun]_vars

-----------------------------------------------------------------------------
(* Reading a report *)

Returned == out.status = "returned"

Threshold == options.minimumChangeThreshold

\* the Filename cell of a record
NameCell(file) == CodeQuote \o Join(file.filename) \o CodeQuote

\* the file name that a Filename cell quotes
CellName(cell) == CHOOSE f \in FileNames : CodeQuote \o Join(f) \o CodeQuote = cell

\* the body rows of a rendered table come after the header and the alignment row
BodyIndexes(table) == 3..Len(table)

FilenameCells(table) == [k \in 1..(Len(table) - 2) |-> table[k + 2][1]]

InTable(table, file) == \E k \in BodyIndexes(table) : table[k][1] = NameCell(file)

InMain(file) == InTable(out.main, file)

InDetails(file) == InTable(out.details.table, file)

\* the two tables of a report
Tables == { out.main, out.details.table }

BelowThreshold(file) == Abs(file.delta) < Threshold

AscendingByFilename(table) ==
    \A k \in BodyIndexes(table) :
        k < Len(table) => localeCompare(CellName(table[k][1]), CellName(table[k + 1][1])) <= 0

RECURSIVE SumOf(_, _)
SumOf(list, field) == IF list = <<>> THEN 0 ELSE Head(list)[field] + SumOf(Tail(list), field)

-----------------------------------------------------------------------------
(* C1 *)

\* C1: a diffTable call that passes no sortBy returns a report, and the rows of
\* the report are in ascending order of file name (the default sort Filename:asc)
C1_NoSortByMeansFilenameAsc ==
    (out.status # "none" /\ options.sortBy = Undefined)
        => /\ Returned
           /\ AscendingByFilename(out.main)
           /\ AscendingByFilename(out.details.table)

-----------------------------------------------------------------------------
(* C2 *)

\* C2: a record is treated as unchanged (kept out of the main table when unchanged
\* records are collapsed or omitted) if and only if abs(delta) is below the
\* threshold; a record with abs(delta) equal to the threshold is in the main
\* table, and with threshold 1 exactly the records with delta 0 are unchanged
C2_UnchangedIffBelowThreshold ==
    Returned =>
        \A i \in 1..Len(files) :
            LET file == files[i]
                separated == options.collapseUnchanged \/ options.omitUnchanged
            IN  /\ Abs(file.delta) = Threshold => InMain(file)
                /\ separated => (InMain(file) <=> Abs(file.delta) >= Threshold)
                /\ (separated /\ Threshold = 1) => (~InMain(file) <=> file.delta = 0)

C2_Witness ==
    /\ Returned /\ options.collapseUnchanged /\ ~options.omitUnchanged
    /\ \E i, j \in 1..Len(files) :
        /\ Abs(files[i].delta) = Threshold /\ InMain(files[i])
        /\ files[j].delta # 0 /\ BelowThreshold(files[j]) /\ InDetails(files[j])

-----------------------------------------------------------------------------
(* C3 *)

\* C3: with omitUnchanged no unchanged record is in the main table or in the
\* collapsed block and no collapsed block is rendered, also when collapseUnchanged
\* is set; whatever the options, a record with abs(delta) >= threshold is in the
\* main table and not in the collapsed block
C3_OmittedNowhereChangedInMain ==
    Returned =>
        /\ options.omitUnchanged =>
            /\ ~out.details.rendered
            /\ out.details.table = <<>>
            /\ \A i \in 1..Len(files) :
                BelowThreshold(files[i]) => ~InMain(files[i]) /\ ~InDetails(files[i])
        /\ \A i \in 1..Len(files) :
            ~BelowThreshold(files[i]) => InMain(files[i]) /\ ~InDetails(files[i])

C3_Witness ==
    /\ Returned /\ options.omitUnchanged /\ options.collapseUnchanged
    /\ \E i, j \in 1..Len(files) :
        /\ BelowThreshold(files[i]) /\ ~InMain(files[i])
        /\ ~BelowThreshold(files[j]) /\ InMain(files[j])

-----------------------------------------------------------------------------
(* C4 *)

\* C4: without omitUnchanged, collapseUnchanged puts every unchanged record into
\* the collapsed block and none into the main table, and without collapseUnchanged
\* every record is in the main table and there is no collapsed block; the
\* collapsed block is rendered iff it holds a row; a main group of no rows is
\* rendered as the empty string, never as a table of a header alone
C4_CollapseUnchanged ==
    Returned =>
        /\ (~options.omitUnchanged /\ options.collapseUnchanged) =>
            \A i \in 1..Len(files) :
                BelowThreshold(files[i]) => InDetails(files[i]) /\ ~InMain(files[i])
        /\ (~options.omitUnchanged /\ ~options.collapseUnchanged) =>
            /\ \A i \in 1..Len(files) : InMain(files[i])
            /\ ~out.details.rendered
        /\ out.details.rendered <=> Len(out.details.table) >= 3
        /\ out.details.rendered <=>
            /\ options.collapseUnchanged /\ ~options.omitUnchanged
            /\ \E i \in 1..Len(files) : BelowThreshold(files[i])
        /\ \A table \in Tables : Len(table) # 2
        /\ out.main = <<>> <=> \A i \in 1..Len(files) : ~InMain(files[i])
        /\ ( /\ ~options.omitUnchanged /\ options.collapseUnchanged
             /\ \A i \in 1..Len(files) : BelowThreshold(files[i]) ) => out.main = <<>>

C4_Witness ==
    /\ Returned /\ ~options.omitUnchanged /\ options.collapseUnchanged
    /\ Len(files) >= 2
    /\ \A i \in 1..Len(files) : BelowThreshold(files[i])
    /\ out.main = <<>>
    /\ out.details.rendered /\ Len(out.details.table) = Len(files) + 2

-----------------------------------------------------------------------------
(* C5 *)

\* C5: every input record has at most one row in the whole report, exactly one
\* without omitUnchanged, and never a row in both tables; no file name is in the
\* report twice, and every file name of the report is one of the input
C5_OneRowPerRecord ==
    Returned =>
        LET cells == FilenameCells(out.main) \o FilenameCells(out.details.table)
        IN  /\ Len(cells) <= Len(files)
            /\ ~options.omitUnchanged => Len(cells) = Len(files)
            /\ \A i \in 1..Len(files) :
                /\ Cardinality({k \in 1..Len(cells) : cells[k] = NameCell(files[i])}) <= 1
                /\ ~(InMain(files[i]) /\ InDetails(files[i]))
            /\ \A k, l \in 1..Len(cells) : k # l => cells[k] # cells[l]
            /\ \A k \in 1..Len(cells) : \E i \in 1..Len(files) : cells[k] = NameCell(files[i])

C5_Witness ==
    /\ Returned /\ options.collapseUnchanged /\ ~options.omitUnchanged
    /\ Len(files) >= 2
    /\ Len(out.main) >= 3 /\ Len(out.details.table) >= 3

-----------------------------------------------------------------------------
(* C6 *)

\* C6: with showTotal the Total Size line shows the sum of size over all input
\* records and the Size Change line is made from the sum of delta over all input
\* records, with total original size = total size - total delta, the omitted and
\* the collapsed records included; without showTotal there is no summary line
C6_TotalsOverAllRecords ==
    Returned =>
        LET totalSize  == SumOf(files, "size")
            totalDelta == SumOf(files, "delta")
        IN  IF options.showTotal
            THEN out.summary =
                    << "**Size Change:** " \o getDeltaText(totalDelta, totalSize - totalDelta)
                           \o " " \o iconForDifference(totalDelta, totalSize - totalDelta),
                       "**Total Size:** " \o prettyBytes(totalSize) >>
            ELSE out.summary = <<>>

C6_Witness ==
    /\ Returned /\ options.showTotal /\ options.omitUnchanged
    /\ \E i, j \in 1..Len(files) :
        /\ BelowThreshold(files[i]) /\ files[i].size > 0 /\ files[i].delta # 0
        /\ ~InMain(files[i]) /\ ~InDetails(files[i])
        /\ InMain(files[j])

-----------------------------------------------------------------------------
(* C7 *)

\* C7: a rendered table whose rows all have "0 B" as their Change cell has no
\* Change column: no table of the report shows a Change column of "0 B" alone
C7_AllZeroChangeColumnHidden ==
    Returned =>
        \A table \in Tables :
            table # <<>> =>
                ~( /\ Len(table[1]) >= 3
                   /\ \A k \in BodyIndexes(table) : table[k][3] = "0 B" )

-----------------------------------------------------------------------------
(* C8 *)

\* the records whose rows diffTable hands to markdownTable for the main table
\* and for the table of the collapsed block
Separated(file) ==
    BelowThreshold(file) /\ (options.omitUnchanged \/ options.collapseUnchanged)

RowsOfMain == { i \in 1..Len(files) : ~Separated(files[i]) }

RowsOfDetails ==
    { i \in 1..Len(files) :
        BelowThreshold(files[i]) /\ options.collapseUnchanged /\ ~options.omitUnchanged }

HasIcon(file) == iconForDifference(file.delta, file.size - file.delta) # ""

EvenColumns(table, rows) ==
    table # <<>> =>
        /\ \A k \in 1..Len(table) : Len(table[k]) = Len(table[1])
        /\ Len(table[1]) = Len(HeaderRow) <=> \E i \in rows : HasIcon(files[i])

\* C8: in every non-empty table the header row, the alignment row and every body
\* row have the same number of cells, and the table has the icon column if and
\* only if a row of that table has an icon
C8_EvenRowsIconColumnIffIcon ==
    Returned => EvenColumns(out.main, RowsOfMain) /\ EvenColumns(out.details.table, RowsOfDetails)

C8_Witness ==
    /\ Returned
    /\ Len(out.main) >= 3 /\ Len(out.main[1]) = 3
    /\ \E k \in BodyIndexes(out.main) : out.main[k][3] # "0 B"
    /\ Len(out.details.table) >= 3 /\ Len(out.details.table[1]) = Len(HeaderRow)

-----------------------------------------------------------------------------
(* C9 *)

\* C9: for an empty record list a diffTable call (one that passes a sort order)
\* returns, the main table is empty, no collapsed block is rendered, and with
\* showTotal the Total Size line shows 0 B and the Size Change line shows 0 B
\* without any icon
C9_EmptyListMinimalReport ==
    (out.status # "none" /\ options.sortBy # Undefined /\ files = <<>>) =>
        /\ Returned
        /\ out.main = <<>>
        /\ ~out.details.rendered
        /\ options.showTotal =>
            out.summary = << "**Size Change:** 0 B ", "**Total Size:** 0 B" >>
        /\ ~options.showTotal => out.summary = <<>>

-----------------------------------------------------------------------------
(* C10 *)

\* C10: a second diffTable call on the same list with the same options returns
\* what the first call returned: once a call has been made, a further call
\* leaves the output as it is
C10_SecondCallSameOutput == [][out.status # "none" => out' = out]_vars

\* a call has sorted, by size, a list that was not in order and holds two records
\* of equal size, both shown in the main table
C10_Witness ==
    /\ Returned /\ options.sortBy = "Size:asc"
    /\ Len(files) >= 2 /\ Len(out.main) >= 4
    /\ \E i \in 1..(Len(files) - 1) :
        /\ files[i].size = files[i + 1].size
        /\ localeCompare(files[i].filename, files[i + 1].filename) > 0

-----------------------------------------------------------------------------
(* C11 *)

\* C11: a diffTable call leaves its inputs unchanged: after the call the caller's
\* record list holds the same records in the same order as before, no record's
\* filename, size or delta modified
C11_InputsUnchanged == [][files' = files]_vars

-----------------------------------------------------------------------------
(* C19 *)

\* the record that a body row of a table shows
RecordOfRow(list, row) == list[CHOOSE i \in 1..Len(list) : NameCell(list[i]) = row[1]]

\* the body rows of a table follow each other in the order that Before(a, b)
\* allows for the records a and b of two neighbouring rows
RowsInOrder(list, table, Before(_, _)) ==
    \A k \in BodyIndexes(table) :
        k < Len(table) => Before(RecordOfRow(list, table[k]), RecordOfRow(list, table[k + 1]))

DeltaAscending(a, b) == a.delta <= b.delta

DeltaDescending(a, b) == a.delta >= b.delta

\* C19: with Change:asc the rows of each rendered section are in non-decreasing
\* order of delta and with Change:desc in non-increasing order of delta, for
\* every list of integer deltas, lists of several negative deltas included
C19_RowsInOrderOfDelta ==
    Returned =>
        \A table \in Tables :
            /\ options.sortBy = "Change:asc" => RowsInOrder(files, table, DeltaAscending)
            /\ options.sortBy = "Change:desc" => RowsInOrder(files, table, DeltaDescending)

-----------------------------------------------------------------------------
(* C20 *)

SizeAscending(a, b) == a.size <= b.size

SizeDescending(a, b) == a.size >= b.size

\* the position of the record of a file name in a list
PositionOf(list, filename) == CHOOSE i \in 1..Len(list) : list[i].filename = filename

\* two neighbouring rows of records of equal size are in the order that their
\* records had in the list handed to the call
EqualSizesKeepOrder(before, after, table) ==
    \A k \in BodyIndexes(table) :
        k < Len(table) =>
            LET a == RecordOfRow(after, table[k])
                b == RecordOfRow(after, table[k + 1])
            IN  a.size = b.size
                    => PositionOf(before, a.filename) < PositionOf(before, b.filename)

\* C20: with Size:asc the rows of each rendered section are in non-decreasing
\* order of size and with Size:desc in non-increasing order of size (sizes are
\* non-negative integers), and records of equal size keep the relative order they
\* had in the list handed to the call
C20_RowsInOrderOfSize ==
    [][ out'.status = "returned" =>
            \A table \in { out'.main, out'.details.table } :
                /\ options.sortBy = "Size:asc" => RowsInOrder(files', table, SizeAscending)
                /\ options.sortBy = "Size:desc" => RowsInOrder(files', table, SizeDescending)
                /\ options.sortBy \in { "Size:asc", "Size:desc" }
                        => EqualSizesKeepOrder(files, files', table) ]_vars

\* a call has sorted by size, largest first, a list that was not in that order
\* and whose two records of equal size were in descending order of file name;
\* both are shown in the main table
C20_Witness ==
    /\ Returned /\ options.sortBy = "Size:desc"
    /\ Len(files) >= 2 /\ Len(out.main) >= 4
    /\ \E i \in 1..(Len(files) - 1) :
        /\ files[i].size = files[i + 1].size
        /\ localeCompare(files[i].filename, files[i + 1].filename) > 0

-----------------------------------------------------------------------------
(* C12 *)

\* the delta in pretty bytes, a positive one with a leading "+"
SignedDelta(delta) == IF delta > 0 THEN "+" \o prettyBytes(delta) ELSE prettyBytes(delta)

\* the hundredths of a percent that abs(delta / originalSize * 100) lies between
HundredthsAround(delta, originalSize) ==
    LET q == (10000 * Abs(delta)) \div Abs(originalSize) IN { q, q + 1 }

\* h hundredths of a percent is abs(delta / originalSize * 100) rounded to 2
\* decimals: no other number of hundredths is nearer
RoundedTo2Decimals(h, delta, originalSize) ==
    2 * Abs(10000 * Abs(delta) - h * Abs(originalSize)) <= Abs(originalSize)

\* a percentage of h hundredths as the text shows it: a leading "+" when it is
\* positive, its own "-" and no "+" when it is negative
SignedPercentage(h, delta, originalSize) ==
    IF h = 0 THEN "0"
    ELSE IF (delta < 0) = (originalSize < 0) THEN "+" \o DecimalText(h, 2)
    ELSE "-" \o DecimalText(h, 2)

\* C12: getDeltaText decides in this order: delta 0 gives exactly "0 B", also for
\* original size 0; otherwise original size 0 gives the signed delta and
\* " (new file)"; otherwise original size = -delta gives the signed delta and
\* " (removed)"; otherwise the signed delta and, in parentheses, the percentage
\* delta / originalSize * 100 rounded to 2 decimals, with a leading "+" when it is
\* positive and none when it is negative.  A positive delta has a leading "+"
C12_DeltaTextByPriority ==
    change.deltaText # NotCalled =>
        LET delta == change.delta
            originalSize == change.originalSize
        IN  /\ delta = 0 => change.deltaText = "0 B"
            /\ (delta # 0 /\ originalSize = 0)
                    => change.deltaText = SignedDelta(delta) \o " (new file)"
            /\ (delta # 0 /\ originalSize # 0 /\ originalSize = -delta)
                    => change.deltaText = SignedDelta(delta) \o " (removed)"
            /\ (delta # 0 /\ originalSize # 0 /\ originalSize # -delta)
                    => \E h \in HundredthsAround(delta, originalSize) :
                        /\ RoundedTo2Decimals(h, delta, originalSize)
                        /\ change.deltaText =
                                SignedDelta(delta) \o " ("
                                    \o SignedPercentage(h, delta, originalSize) \o "%)"

\* getDeltaText was called with delta 0 and original size 0
C12_Witness ==
    change.deltaText # NotCalled /\ change.delta = 0 /\ change.originalSize = 0

-----------------------------------------------------------------------------
(* C13 *)

\* the integers that delta / originalSize * 100 lies between
IntegersAround(delta, originalSize) ==
    LET q == (100 * delta) \div originalSize IN { q, q + 1 }

\* p is delta / originalSize * 100 rounded to the nearest integer: no other
\* integer is nearer
RoundedToInteger(p, delta, originalSize) ==
    2 * Abs(100 * delta - p * originalSize) <= Abs(originalSize)

\* the icon of each band of rounded percentages
IconOfBand(p) ==
    CASE p >= 50              -> IconCritical
      [] p >= 20 /\ p < 50    -> IconMajor
      [] p >= 10 /\ p < 20    -> IconWarning
      [] p >= 5 /\ p < 10     -> IconNotable
      [] p <= -50             -> IconBest
      [] p > -50 /\ p <= -20  -> IconGreat
      [] p > -20 /\ p <= -10  -> IconGood
      [] p > -10 /\ p <= -5   -> IconMinor
      [] p > -5 /\ p < 5      -> ""

\* C13: iconForDifference returns the new-file icon whenever the original size
\* is 0; otherwise, with p = delta / originalSize * 100 rounded to the nearest
\* integer, it returns the icon of the one band that p is in: critical for
\* p >= 50, major for 20 <= p < 50, warning for 10 <= p < 20, notable for
\* 5 <= p < 10, best for p <= -50, great for -50 < p <= -20, good for
\* -20 < p <= -10, minor-good for -10 < p <= -5, none for -5 < p < 5; delta 0
\* with an original size other than 0 gives no icon
C13_IconByBand ==
    change.icon # NotCalled =>
        LET delta == change.delta
            originalSize == change.originalSize
        IN  /\ originalSize = 0 => change.icon = IconNew
            /\ originalSize # 0 =>
                \E p \in IntegersAround(delta, originalSize) :
                    /\ RoundedToInteger(p, delta, originalSize)
                    /\ change.icon = IconOfBand(p)
            /\ (delta = 0 /\ originalSize # 0) => change.icon = ""

\* iconForDifference was called with a percentage of exactly -5
C13_Witness ==
    /\ change.icon = IconMinor
    /\ change.originalSize # 0
    /\ 100 * change.delta = -5 * change.originalSize

-----------------------------------------------------------------------------
(* C18 *)

\* the six sort specifications '<column>:<direction>'
SortSpecifications ==
    { validColumns[i] \o <<":">> \o validDirections[j] :
        i \in 1..Len(validColumns), j \in 1..Len(validDirections) }

\* C18: getSortOrder(s) returns, for every string s, one of the six sort
\* specifications: s itself when s is one of the six, and 'Filename:asc', after
\* a warning, for every other string
C18_SortOrderIsOneOfSix ==
    sortOrder.called =>
        /\ sortOrder.returned \in SortSpecifications
        /\ sortOrder.sortBy \in SortSpecifications
                => sortOrder.returned = sortOrder.sortBy /\ ~sortOrder.warned
        /\ sortOrder.sortBy \notin SortSpecifications
                => sortOrder.returned = DefaultSortOrder /\ sortOrder.warned

-----------------------------------------------------------------------------
(* Reading a stripHash call *)

\* the function of the plugin has been applied to the file name
Applied == strip.applied # NotCalled

\* the compiled pattern of the call and its first match in the file name
CompiledPattern == RegExp(strip.regex.chars)

ValidPattern == strip.regex.type = "string" /\ CompiledPattern.valid

FirstMatch == Exec(CompiledPattern.items, strip.fileName, 1)

\* a group of the pattern took part in the match
SomeGroupParticipated ==
    \E i \in 1..Len(FirstMatch.captures) : FirstMatch.captures[i].participated

\* the file name without the span of the match
SpanDeleted(fileName, m) ==
    SubSeq(fileName, 1, m.index - 1) \o SubSeq(fileName, m.end, Len(fileName))

\* the file name with an asterisk at every position that a group captured
MaskedInPlace(fileName, m) ==
    [k \in 1..Len(fileName) |->
        IF \E i \in 1..Len(m.captures) :
                /\ m.captures[i].participated
                /\ m.captures[i].from <= k /\ k <= m.captures[i].to
        THEN "*" ELSE fileName[k]]

-----------------------------------------------------------------------------
(* C14 *)

\* C14: for a valid pattern with no capturing group, or whose capturing groups
\* all took no part in the match, the function that stripHash returned does not
\* throw; it returns the file name with exactly the span of the first match
\* deleted (later matches are left alone), and a file name that the pattern does
\* not match as it is
C14_FirstMatchedSpanDeleted ==
    (Applied /\ ValidPattern /\ ~(FirstMatch.matched /\ SomeGroupParticipated)) =>
        /\ strip.applied = "returned"
        /\ ~FirstMatch.matched => strip.result = strip.fileName
        /\ FirstMatch.matched => strip.result = SpanDeleted(strip.fileName, FirstMatch)

-----------------------------------------------------------------------------
(* C15 *)

\* C15: for a valid pattern with capturing groups (here: groups without a name)
\* that take part in the match, the function that stripHash returned replaces
\* every captured substring in place, at the position where it was captured, with
\* as many asterisks, and changes no other character; the result is as long as
\* the file name (so two file names that differ only at captured positions get
\* the same result)
C15_CapturesMaskedInPlace ==
    ( /\ Applied /\ ValidPattern /\ ~CompiledPattern.named
      /\ FirstMatch.matched /\ SomeGroupParticipated ) =>
        /\ strip.applied = "returned"
        /\ strip.result = MaskedInPlace(strip.fileName, FirstMatch)
        /\ Len(strip.result) = Len(strip.fileName)

-----------------------------------------------------------------------------
(* C16 *)

\* C16: stripHash called with the empty string or with no pattern returns
\* undefined, not a function; it returns a function for every pattern string that
\* is not empty; the orchestrator hands what stripHash returned, as it is, to the
\* size plugin
C16_UndefinedWithoutPattern ==
    strip.setup # NotCalled =>
        /\ strip.setup = "returned"
        /\ (strip.regex.type = "undefined" \/ strip.regex = StringValue(<<>>))
                => strip.normalizer.type = "undefined"
        /\ (strip.regex.type = "string" /\ strip.regex.chars # <<>>)
                => /\ strip.normalizer.type = "function"
                   /\ strip.normalizer.regex = strip.regex
        /\ strip.plugin.stripHash = strip.normalizer

\* stripHash was called with the empty string
C16_Witness ==
    /\ strip.setup = "returned"
    /\ strip.regex = StringValue(<<>>)
    /\ strip.plugin.stripHash.type = "undefined"

-----------------------------------------------------------------------------
(* C17 *)

\* C17: a pattern that is not valid is reported as an error when
\* stripHash(pattern) is called to build the normalizer, not later when the
\* function it returned is first applied to a file name
C17_InvalidPatternFailsAtSetup ==
    (strip.setup # NotCalled /\ Truthy(strip.regex) /\ ~ValidPattern) =>
        /\ strip.setup = "threw"
        /\ strip.applied # "threw"

-----------------------------------------------------------------------------
(* C28 *)

\* the rows of the records of list at the indexes, from index i on, in the order
\* of the list
RECURSIVE RowsAt(_, _, _)
RowsAt(list, indexes, i) ==
    IF i > Len(list) THEN <<>>
    ELSE (IF i \in indexes THEN <<Row(list[i])>> ELSE <<>>) \o RowsAt(list, indexes, i + 1)

\* the row sets that diffTable hands to markdownTable
ChangedRows == RowsAt(files, RowsOfMain, 1)

UnChangedRows == RowsAt(files, RowsOfDetails, 1)

\* markdownTable ends on rows and renders them with 2, 3 or 4 columns
EndsWithColumns(rows, table) ==
    /\ SkippedColumns(rows) <= 1
    /\ \A i \in 1..Len(SkipEmptyColumns(rows)) : Len(SkipEmptyColumns(rows)[i]) >= 3
    /\ table = markdownTable(rows)
    /\ rows # <<>> => table # <<>> /\ Len(table[1]) \in { 2, 3, 4 }

\* C28: markdownTable terminates on every row set that diffTable hands to it:
\* the body of the loop that skips trailing empty columns runs at most once (it
\* never gets to rows without cells, on which it would not end), and every
\* rendered table that is not empty has 2, 3 or 4 columns, so the branch
\* columnLength = 0 is not taken
C28_MarkdownTableEnds ==
    Returned =>
        /\ EndsWithColumns(ChangedRows, out.main)
        /\ EndsWithColumns(UnChangedRows, out.details.table)

\* a main table whose icon column was skipped and whose Change column was
\* hidden
C28_Witness ==
    /\ Returned
    /\ Len(ChangedRows) >= 1 /\ SkippedColumns(ChangedRows) = 1
    /\ Len(out.main) >= 3 /\ Len(out.main[1]) = 2

-----------------------------------------------------------------------------
(* C29 *)

\* the Change cell and the icon cell (none when the table has no such column)
\* of the row of a record in a table
ChangeCell(table, file) ==
    LET row == table[CHOOSE k \in BodyIndexes(table) : table[k][1] = NameCell(file)]
    IN  IF Len(row) >= 3 THEN row[3] ELSE ""

IconCell(table, file) ==
    LET row == table[CHOOSE k \in BodyIndexes(table) : table[k][1] = NameCell(file)]
    IN  IF Len(row) >= 4 THEN row[4] ELSE ""

\* C29: in a report of diffTable a record with delta # 0 is labelled
\* "(removed)" exactly when its size is 0 and "(new file)" exactly when its size
\* is its delta, never both; a record labelled removed has the icon of the best
\* shrink and a record labelled new file the new-file icon
C29_RemovedAndNewFileLabels ==
    Returned =>
        \A table \in Tables :
            \A i \in 1..Len(files) :
                (files[i].delta # 0 /\ InTable(table, files[i])) =>
                    LET file    == files[i]
                        removed == ChangeCell(table, file) = SignedDelta(file.delta) \o " (removed)"
                        newFile == ChangeCell(table, file) = SignedDelta(file.delta) \o " (new file)"
                    IN  /\ removed <=> file.size = 0
                        /\ newFile <=> file.size = file.delta
                        /\ ~(removed /\ newFile)
                        /\ removed => IconCell(table, file) = IconBest
                        /\ newFile => IconCell(table, file) = IconNew

\* a report shows a removed file and a new file
C29_Witness ==
    /\ Returned
    /\ \E i, j \in 1..Len(files) :
        /\ files[i].delta # 0 /\ files[i].size = 0 /\ InMain(files[i])
        /\ IconCell(out.main, files[i]) = IconBest
        /\ files[j].delta # 0 /\ files[j].size = files[j].delta /\ InMain(files[j])
        /\ IconCell(out.main, files[j]) = IconNew

-----------------------------------------------------------------------------
(* C30 *)

\* the bands in the order best shrink < great shrink < good shrink < minor-good
\* shrink < no icon < notable growth < warning growth < major growth < critical
\* growth
BandRank(icon) ==
    CASE icon = IconBest     -> 1
      [] icon = IconGreat    -> 2
      [] icon = IconGood     -> 3
      [] icon = IconMinor    -> 4
      [] icon = ""           -> 5
      [] icon = IconNotable  -> 6
      [] icon = IconWarning  -> 7
      [] icon = IconMajor    -> 8
      [] icon = IconCritical -> 9

\* C30: for a fixed original size above 0 the band that iconForDifference
\* returns is monotone in delta: a larger delta never gets a lower band
C30_BandMonotoneInDelta ==
    (change.icon # NotCalled /\ change.originalSize > 0) =>
        \A larger \in Deltas :
            larger >= change.delta =>
                BandRank(iconForDifference(larger, change.originalSize))
                    >= BandRank(change.icon)

\* iconForDifference returned a shrink band, and larger deltas of the model get
\* every band above it
C30_Witness ==
    /\ change.icon = IconGreat /\ change.originalSize > 0
    /\ \A rank \in 3..9 :
        \E larger \in Deltas :
            /\ larger > change.delta
            /\ BandRank(iconForDifference(larger, change.originalSize)) = rank

-----------------------------------------------------------------------------
(* Reading a run *)

\* the commands of a step that the run executed, in order
ExecutedAt(step) == SelectSeq(run.executed, LAMBDA e : e.step = step)

\* the package manager and install command the lockfiles call for, by precedence
ByLockfile(present) ==
    CASE "yarn.lock" \in present ->
            <<"yarn", "yarn --frozen-lockfile">>
      [] "yarn.lock" \notin present /\ "pnpm-lock.yaml" \in present ->
            <<"pnpm", "pnpm install --frozen-lockfile">>
      [] {"yarn.lock", "pnpm-lock.yaml"} \cap present = {}
            /\ {"bun.lockb", "bun.lock"} \cap present # {} ->
            <<"bun", "bun install --frozen-lockfile">>
      [] {"yarn.lock", "pnpm-lock.yaml", "bun.lockb", "bun.lock"} \cap present = {}
            /\ "package-lock.json" \in present ->
            <<"npm", "npm ci">>
      [] present \cap Lockfiles = {} ->
            <<"npm", "npm install">>

Running == run.pc # "idle"

\* C21: the install command a run executes on a revision is the configured
\* install-script if there is one, and otherwise the command of the first lockfile
\* present among yarn.lock, pnpm-lock.yaml, bun.lockb or bun.lock, package-lock.json
\* ('npm install' without any); the build command is always run with the package
\* manager of that lockfile (npm without any), whatever the install-script.
C21_PackageManagerByLockfile ==
    Running =>
        /\ \A i \in 1..Len(run.executed) :
             LET e == run.executed[i]
                 expected == ByLockfile(run.lockfiles[e.revision])
             IN  /\ e.step = "install" =>
                        e.command = IF run.with.installScript # ""
                                    THEN run.with.installScript ELSE expected[2]
                 /\ e.step = "build" => e.command = expected[1] \o " run build"
        /\ run.packageManager # "" =>
             \E present \in { run.lockfiles.current, run.lockfiles.base } :
                run.packageManager = ByLockfile(present)[1]

\* a run with yarn.lock and pnpm-lock.yaml and an install-script: the script was
\* executed, and then the build with yarn
C21_Witness ==
    /\ Running
    /\ {"yarn.lock", "pnpm-lock.yaml", "package-lock.json"} \subseteq run.lockfiles.current
    /\ run.with.installScript = "npm run setup"
    /\ Len(run.executed) >= 2
    /\ run.executed[1] = [step |-> "install", revision |-> "current",
                          command |-> "npm run setup", ok |-> TRUE]
    /\ run.executed[2] = [step |-> "build", revision |-> "current",
                          command |-> "yarn run build", ok |-> TRUE]


\* the sizes were read in a working tree where the revision was checked out,
\* installed and built
ReadOf(sizes, revision) ==
    /\ sizes.read
    /\ sizes.revision = revision /\ sizes.installed = revision /\ sizes.built = revision

\* the record of a file name in the diff of the run
DiffOf(filename) ==
    LET at == { i \in 1..Len(run.diff.files) : run.diff.files[i].filename = filename }
    IN  run.diff.files[CHOOSE i \in at : TRUE]

\* C22: in every run, once a reset of the working tree to the base revision has
\* been attempted the sizes of the current revision have been read, from a tree
\* where the current revision was installed and built; the base sizes are read
\* only from a tree where the base revision is checked out, installed and built;
\* the diff is computed at most once, from both readings, with the base sizes as
\* old and the current sizes as new (a file only the current build has is new, a
\* file only the base build has is removed); and nothing is posted before it.
C22_CurrentThenBaseThenDiff ==
    Running =>
        /\ (run.tree.revision = "base" \/ ExecutedAt("checkout ref") # <<>>
                \/ ExecutedAt("checkout sha") # <<>>)
              => ReadOf(run.newSizes, "current")
        /\ run.oldSizes.read => ReadOf(run.oldSizes, "base") /\ run.newSizes.read
        /\ run.diff.computed \in {0, 1}
        /\ run.diff.computed = 1 =>
              /\ ReadOf(run.newSizes, "current") /\ ReadOf(run.oldSizes, "base")
              /\ run.diff.files = getDiff(BuiltSizes("base"), BuiltSizes("current"))
              /\ DiffOf(<<"f", "2">>) = [filename |-> <<"f", "2">>, size |-> 200, delta |-> 200]
              /\ DiffOf(<<"f", "1", "0">>) = [filename |-> <<"f", "1", "0">>, size |-> 0, delta |-> -1500]
              /\ DiffOf(<<"a">>).delta = 0
        /\ (run.api # <<>> \/ run.rawMarkdown \/ run.markdownDiff # NotCalled) => run.diff.computed = 1

\* a run that got through both builds and computed and logged the diff
C22_Witness ==
    /\ Running
    /\ run.diff.computed = 1 /\ run.printed
    /\ Len(ExecutedAt("build")) = 2 /\ Len(ExecutedAt("install")) = 2
    /\ run.with.cleanScript = "clean"


\* the input is a positive number written in digits
IsPositiveNumber(chars) ==
    /\ chars # <<>>
    /\ \A i \in 1..Len(chars) : IsDigit(chars[i])
    /\ NumericValue(chars) > 0

\* the input is empty or does not begin like a number
IsNoNumber(chars) == chars = <<>> \/ ~IsDigit(chars[1])

DiffTableCalled == Running /\ run.markdownDiff # NotCalled

\* C24: the threshold in the options of the diffTable call is the number the
\* minimum-change-threshold input gives, and 1 when the input is empty or is not
\* a number.
C24_ThresholdDefaultsToOne ==
    DiffTableCalled =>
        LET input == run.with.minimumChangeThreshold
            passed == run.diffTableOptions.minimumChangeThreshold
        IN  /\ IsPositiveNumber(input) => passed = Number(NumericValue(input))
            /\ IsNoNumber(input) => passed = Number(1)


\* the steps whose command must succeed for the run to go on
MustSucceed == { "install", "build", "clean", "checkout sha" }

\* the run ended in setFailed with the message, and posted nothing
EndedFailedWith(message) ==
    /\ run.pc = "failed" /\ run.failed = message
    /\ run.api = <<>> /\ ~run.rawMarkdown

\* C26: a run triggered by an event other than pull_request, pull_request_target
\* and push ends in setFailed with the error's message without having executed any
\* command; and when an install, build or clean command, or the reset to the base
\* sha that follows a failed reset to the base ref, fails, that command is the last
\* one executed and the run ends in setFailed with its error's message; in both
\* cases nothing has been posted.
C26_FailuresEndInSetFailed ==
    Running =>
        /\ (run.eventName \notin { "pull_request", "pull_request_target", "push" }
                /\ run.pc # "start")
              => EndedFailedWith(UnsupportedEvent(run.eventName)) /\ run.executed = <<>>
        /\ \A i \in 1..Len(run.executed) :
              (run.executed[i].step \in MustSucceed /\ ~run.executed[i].ok)
                 => /\ i = Len(run.executed)
                    /\ EndedFailedWith(ExecError(run.executed[i].command))

\* a run that could reset the working tree neither to the base ref nor to the
\* base sha, and one whose clean script failed on the base revision
C26_Witness ==
    /\ Running /\ run.pc = "failed" /\ run.executed # <<>>
    /\ LET last == run.executed[Len(run.executed)]
       IN  /\ last.step = "checkout sha" /\ ~last.ok
           /\ run.failed = "The process failed: git reset --hard 0a1b2c"
           /\ Len(ExecutedAt("checkout ref")) = 1 /\ Len(ExecutedAt("build")) = 1


PullRequestEvent == run.eventName \in { "pull_request", "pull_request_target" }

\* the run has ended, and not because of the event or of a command
EndedAfterBuilds ==
    /\ Running /\ run.pc \in { "failed", "done" }
    /\ run.eventName \in { "pull_request", "pull_request_target", "push" }
    /\ \A i \in 1..Len(run.executed) :
          run.executed[i].step \in MustSucceed \cup { "reset" } => run.executed[i].ok

\* the marker a run with the key writes under its report
MarkerOf(key) ==
    IF key = "" THEN "compressed-size-action" ELSE "compressed-size-action::" \o key

\* the comments whose marker carries exactly the key of the run
MatchingComments ==
    { i \in 1..Len(run.comments) : run.comments[i].marker = MarkerOf(run.with.commentKey) }

\* the calls of an API that the run made
Calls(name) == SelectSeq(run.api, LAMBDA c : c.call = name)

\* C23: in comment mode every comment a run updates carries the marker with
\* exactly the key of the run (none for a run without key), and a run that gets to
\* report and finds such comments updates the most recent of them.
C23_UpdatesOwnLatestComment ==
    (Running /\ PullRequestEvent /\ ~toBool(run.with.useCheck)) =>
        /\ \A i \in 1..Len(run.api) :
              run.api[i].call = "updateComment" =>
                 \E c \in MatchingComments : run.comments[c].id = run.api[i].comment_id
        /\ (EndedAfterBuilds /\ MatchingComments # {}) =>
              \E i \in 1..Len(run.api) :
                 /\ run.api[i].call = "updateComment"
                 /\ run.api[i].comment_id =
                       run.comments[CHOOSE c \in MatchingComments :
                                       \A d \in MatchingComments : d <= c].id

\* C25: in comment mode on a pull-request event at most one API call delivers
\* the report, a comment is created only after no update succeeded and a review
\* only after no comment could be created, a run that got to report does not end
\* failed, and when it has ended the raw markdown is in the log if and only if no
\* call delivered the report.
C25_DeliveredOnceOrPrinted ==
    (Running /\ PullRequestEvent /\ ~toBool(run.with.useCheck)) =>
        LET delivered == { i \in 1..Len(run.api) :
                              /\ run.api[i].call \in { "updateComment", "createComment", "createReview" }
                              /\ run.api[i].ok }
        IN  /\ Cardinality(delivered) <= 1
            /\ \A i \in delivered : i = Len(run.api)
            /\ EndedAfterBuilds => /\ run.pc # "failed"
                                   /\ run.rawMarkdown <=> delivered = {}

\* C27: a run on a push event calls no API and does not print the raw markdown,
\* whatever use-check is; when none of its commands failed it logs the size
\* differences and completes.
C27_PushOnlyLogs ==
    (Running /\ run.eventName = "push") =>
        /\ run.api = <<>> /\ ~run.rawMarkdown
        /\ EndedAfterBuilds => run.printed /\ run.pc = "done"


=============================================================================
